---- MODULE Spec2Model ----
(***************************************************************************)
(* PDALife scraper (src/main.py): the URL normaliser, the resilient        *)
(* fetcher, the CDN link resolver, the item resolver and the /search       *)
(* orchestrator.                                                           *)
(*                                                                         *)
(* Text is modelled as a sequence of one-character strings, so that the    *)
(* substring tests, replacements and splits of the code are computed and   *)
(* not assumed.  A parsed HTML document is a record of the elements the    *)
(* code selects from it.                                                   *)
(***************************************************************************)
EXTENDS Integers, Sequences, FiniteSets, TLC

(***************************************************************************)
(* Text literals                                                           *)
(***************************************************************************)
BASE_DOMAIN ==
    <<"h","t","t","p","s",":","/","/","p","d","a","l","i","f","e",".","c","o","m">>

CDN_DOMAIN ==
    <<"h","t","t","p","s",":","/","/","m","o","b","d","i","s","c",".","c","o","m">>

sHttps ==
    <<"h","t","t","p","s",":","/","/">>

sHttp ==
    <<"h","t","t","p">>

sColonSlashes ==
    <<":","/","/">>

sTrGoogCom ==
    <<"-","c","o","m",".","t","r","a","n","s","l","a","t","e",".","g","o","o","g">>

sDotCom ==
    <<".","c","o","m">>

sTrGoog ==
    <<".","t","r","a","n","s","l","a","t","e",".","g","o","o","g">>

sQxtr ==
    <<"?","_","x","_","t","r","_">>

sAxtr ==
    <<"&","_","x","_","t","r","_">>

sFdlPrefix ==
    <<"/","f","d","l","/">>

sMobdisc ==
    <<"m","o","b","d","i","s","c">>

sMobdiscCom ==
    <<"m","o","b","d","i","s","c",".","c","o","m">>

sPdalifeCom ==
    <<"p","d","a","l","i","f","e",".","c","o","m">>

sDwn ==
    <<"/","d","w","n","/">>

sTme ==
    <<"t",".","m","e">>

sMagnet ==
    <<"m","a","g","n","e","t",":">>

sHashDownload ==
    <<"#","/","d","o","w","n","l","o","a","d","/">>

sSearch ==
    <<"/","s","e","a","r","c","h","/">>

sPage ==
    <<"/","p","a","g","e","-">>

sJoin ==
    <<","," ">>

\* The printable ASCII characters, code 32 first (the grave accent, which a
\* string literal cannot hold, by its code point).
Ascii ==
    <<" ","!","\"","#","$","%","&","'","(",")","*","+",",","-",".","/","0","1","2","3","4","5","6","7","8","9",":",";","<","=",">","?","@","A","B","C","D","E","F","G","H","I","J","K","L","M","N","O","P","Q","R","S","T","U","V","W","X","Y","Z","[","\\","]","^","_","U+0060","a","b","c","d","e","f","g","h","i","j","k","l","m","n","o","p","q","r","s","t","u","v","w","x","y","z","{","|","}","~">>

\* Python's None.  The empty tuple stands for it: it differs from every
\* document and record, and as a text it is the empty string, which is as
\* false as None in every truth test the code makes on a text.
None ==
    <<>>

(***************************************************************************)
(* str operations of Python, on character sequences                        *)
(***************************************************************************)
\* s[i:i+len(p)] == p
MatchAt(s, p, i) ==
    /\ i >= 1
    /\ i + Len(p) - 1 <= Len(s)
    /\ SubSeq(s, i, i + Len(p) - 1) = p

\* s.find(p) + 1 (0 when p does not occur)
Find(s, p) ==
    LET hits == {i \in 1..Len(s) : MatchAt(s, p, i)}
    IN  IF hits = {} THEN 0 ELSE CHOOSE i \in hits : \A j \in hits : i <= j

\* p in s
Contains(s, p) ==
    \E i \in 1..(Len(s) - Len(p) + 1) : MatchAt(s, p, i)

\* s.startswith(p)
StartsWith(s, p) ==
    MatchAt(s, p, 1)

\* s[n:]
Tail_(s, n) ==
    SubSeq(s, n + 1, Len(s))

RECURSIVE ReplaceFrom(_, _, _, _)
ReplaceFrom(s, old, new, i) ==
    IF i > Len(s) THEN <<>>
    ELSE IF MatchAt(s, old, i) THEN new \o ReplaceFrom(s, old, new, i + Len(old))
    ELSE <<s[i]>> \o ReplaceFrom(s, old, new, i + 1)

\* s.replace(old, new)
Replace(s, old, new) ==
    ReplaceFrom(s, old, new, 1)

\* s.split(sep)[0]
SplitFirst(s, sep) ==
    IF Find(s, sep) = 0 THEN s ELSE SubSeq(s, 1, Find(s, sep) - 1)

HexDigits ==
    <<"0","1","2","3","4","5","6","7","8","9","A","B","C","D","E","F">>

LowerHex ==
    <<"0","1","2","3","4","5","6","7","8","9","a","b","c","d","e","f">>

IsHex(c) ==
    \E k \in 1..16 : HexDigits[k] = c \/ LowerHex[k] = c

HexVal(c) ==
    (CHOOSE k \in 1..16 : HexDigits[k] = c \/ LowerHex[k] = c) - 1

\* The character of a decoded byte; a byte outside printable ASCII is shown
\* as the replacement character.
Chr(v) ==
    IF v >= 32 /\ v <= 126 THEN Ascii[v - 31] ELSE "U+FFFD"

RECURSIVE UnquoteFrom(_, _)
UnquoteFrom(s, i) ==
    IF i > Len(s) THEN <<>>
    ELSE IF s[i] = "%" /\ i + 2 <= Len(s) /\ IsHex(s[i + 1]) /\ IsHex(s[i + 2])
         THEN <<Chr(16 * HexVal(s[i + 1]) + HexVal(s[i + 2]))>> \o UnquoteFrom(s, i + 3)
    ELSE <<s[i]>> \o UnquoteFrom(s, i + 1)

\* urllib.parse.unquote: every %XX escape becomes its character
unquote(s) ==
    UnquoteFrom(s, 1)

\* Where the pattern https?://[^&]+ matches at position i, the position of
\* the first character after "://"; 0 where it does not match.
NestedBodyAt(s, i) ==
    IF ~MatchAt(s, sHttp, i) THEN 0
    ELSE LET b == IF MatchAt(s, <<"s">> \o sColonSlashes, i + 4) THEN i + 8
                  ELSE IF MatchAt(s, sColonSlashes, i + 4) THEN i + 7
                  ELSE 0
         IN  IF b # 0 /\ b <= Len(s) /\ s[b] # "&" THEN b ELSE 0

\* re.search(r'(https?://[^&]+)', s).group(1), or None
ReSearchUrl(s) ==
    LET starts == {i \in 1..Len(s) : NestedBodyAt(s, i) # 0}
    IN  IF starts = {} THEN None
        ELSE LET i == CHOOSE x \in starts : \A y \in starts : x <= y
                 amps == {j \in i..Len(s) : s[j] = "&"}
                 e == IF amps = {} THEN Len(s)
                      ELSE (CHOOSE x \in amps : \A y \in amps : x <= y) - 1
             IN  SubSeq(s, i, e)

(***************************************************************************)
(* unwrap_google_url                                                       *)
(***************************************************************************)
unwrap_clean(url) ==
    SplitFirst(SplitFirst(Replace(Replace(unquote(url), sTrGoogCom, sDotCom),
                                  sTrGoog, <<>>), sQxtr), sAxtr)

unwrap_google_url(url) ==
    IF url = <<>> THEN <<>>
    ELSE LET clean == unwrap_clean(url)
         IN  IF StartsWith(clean, <<"/">>)
             THEN IF StartsWith(clean, sFdlPrefix) THEN CDN_DOMAIN \o clean
                  ELSE BASE_DOMAIN \o clean
             ELSE IF Contains(clean, sHttps) /\ Contains(Tail_(clean, 8), sHttp)
                     /\ ReSearchUrl(clean) # None
                  THEN ReSearchUrl(clean)
             ELSE clean

(***************************************************************************)
(* Bounds                                                                  *)
(***************************************************************************)
\* Iterations of one fetch loop that are explored (the loop itself has no cap).
MaxAttempts ==
    3

(***************************************************************************)
(* URLs used as inputs                                                     *)
(***************************************************************************)
uGame ==
    <<"/","g","a","m","e","/","x">>

uDwn ==
    <<"/","d","w","n","/","r">>

uDwnAbs ==
    BASE_DOMAIN \o uDwn

uMirror ==
    CDN_DOMAIN \o <<"/","d","w">>

uFdl ==
    <<"/","f","d","l","/","y">>

uHash ==
    <<"#","/","d","o","w","n","l","o","a","d","/","z">>

uTme ==
    sHttps \o sTme \o <<"/","x">>

uCdnAbs ==
    CDN_DOMAIN \o <<"/","f">>

uMagnet ==
    sMagnet \o <<"?","x","t","=","1">>

uExt ==
    sHttps \o <<"e","x",".","m","e","/","a">>

uImg ==
    <<"/","i",".","p","n","g">>

\* Relative links without a leading slash
uGameRel ==
    <<"g","a","m","e","/","x">>

uImgRel ==
    <<"i",".","p","n","g">>

(***************************************************************************)
(* Parsed documents: what the selectors of the code find in a page         *)
(*   catalog    : the .catalog-item elements                               *)
(*   found0     : "Found 0 responses" occurs in the text                   *)
(*   load_more  : the .js-load_more element: whether it carries a          *)
(*                data-max_page attribute, and the text of the attribute   *)
(*   list       : the .game-versions__downloads-list li elements, each its *)
(*                a.game-versions__downloads-button or None                *)
(*   standalone : the a.game-versions__downloads-button outside a list     *)
(*   accordion  : an .accordion-item exists                                *)
(*   buttons    : href of every a.b-download__button (<<>>: no href)       *)
(***************************************************************************)
EmptyDoc ==
    [catalog |-> <<>>, found0 |-> FALSE,
     load_more |-> [has_attr |-> FALSE, text |-> <<>>], list |-> <<>>,
     standalone |-> <<>>, accordion |-> FALSE, buttons |-> <<>>]

\* soup.select('a.game-versions__downloads-button')
DownloadButtons(soup) ==
    SelectSeq(soup.list, LAMBDA b : b # None) \o soup.standalone

is_valid_mobdisc_page(soup) ==
    soup.buttons # <<>>

detail_page_valid(s) ==
    DownloadButtons(s) # <<>> \/ s.accordion

search_page_valid(s) ==
    s.catalog # <<>> \/ s.found0

Validators ==
    {"mobdisc", "detail", "search"}

validator_func(v, soup) ==
    CASE v = "mobdisc" -> is_valid_mobdisc_page(soup)
      [] v = "detail" -> detail_page_valid(soup)
      [] v = "search" -> search_page_valid(soup)

(***************************************************************************)
(* fetch_until_success                                                     *)
(*                                                                         *)
(* A response is [raises, status, url, doc]: raises = "get" when           *)
(* client.get raised (no response), "parse" when parsing the body raised,  *)
(* "none" otherwise; url is the final URL after redirects.                 *)
(***************************************************************************)
Continue ==
    [kind |-> "continue", value |-> None]

Return(v) ==
    [kind |-> "return", value |-> v]

fetch_target_url(url) ==
    IF StartsWith(url, <<"/">>) THEN BASE_DOMAIN \o url ELSE url

\* fetch_attempt with HTTP 429 taken as a terminal failure.
fetch_attempt_429_terminal(validator, res) ==
    IF res.raises = "get" THEN Continue
    ELSE IF res.status = 429 THEN Return(None)
    ELSE IF res.status >= 500 THEN Continue
    ELSE IF res.status \in {403, 451} THEN Return(None)
    ELSE IF res.status = 404 THEN Return(None)
    ELSE IF res.raises = "parse" THEN Continue
    ELSE IF validator_func(validator, res.doc) THEN Return(res.doc)
    ELSE IF Contains(res.url, sMobdisc) \/ res.doc.buttons # <<>> THEN Return(res.doc)
    ELSE IF res.status = 200 THEN Return(None)
    ELSE Continue

\* fetch_attempt without the test for the blocked statuses 403 and 451.
fetch_attempt_blocked_retried(validator, res) ==
    IF res.raises = "get" THEN Continue
    ELSE IF res.status = 429 \/ res.status >= 500 THEN Continue
    ELSE IF res.status = 404 THEN Return(None)
    ELSE IF res.raises = "parse" THEN Continue
    ELSE IF validator_func(validator, res.doc) THEN Return(res.doc)
    ELSE IF Contains(res.url, sMobdisc) \/ res.doc.buttons # <<>> THEN Return(res.doc)
    ELSE IF res.status = 200 THEN Return(None)
    ELSE Continue

\* fetch_attempt with the test of lines 158-160 (a 200 with invalid content)
\* before the mirror test of lines 152-154.
fetch_attempt_200_first(validator, res) ==
    IF res.raises = "get" THEN Continue
    ELSE IF res.status = 429 \/ res.status >= 500 THEN Continue
    ELSE IF res.status \in {403, 451} THEN Return(None)
    ELSE IF res.status = 404 THEN Return(None)
    ELSE IF res.raises = "parse" THEN Continue
    ELSE IF validator_func(validator, res.doc) THEN Return(res.doc)
    ELSE IF res.status = 200 THEN Return(None)
    ELSE IF Contains(res.url, sMobdisc) \/ res.doc.buttons # <<>> THEN Return(res.doc)
    ELSE Continue

\* One iteration of the while True loop, given what the GET produced.
fetch_attempt(validator, res) ==
    IF res.raises = "get" THEN Continue
    ELSE IF res.status = 429 \/ res.status >= 500 THEN Continue
    ELSE IF res.status \in {403, 451} THEN Return(None)
    ELSE IF res.status = 404 THEN Return(None)
    ELSE IF res.raises = "parse" THEN Continue
    ELSE IF validator_func(validator, res.doc) THEN Return(res.doc)
    ELSE IF Contains(res.url, sMobdisc) \/ res.doc.buttons # <<>> THEN Return(res.doc)
    ELSE IF res.status = 200 THEN Return(None)
    ELSE Continue

GetException ==
    [raises |-> "get", status |-> 0, url |-> <<>>, doc |-> EmptyDoc]

\* The URL has a scheme that client.get can send a request to.
IsHttpUrl(url) ==
    StartsWith(url, sHttps) \/ StartsWith(url, sHttp \o sColonSlashes)

\* Lines 118-165 for a target URL without such a scheme: client.get raises
\* before any I/O, so the await of line 120 never suspends, lines 162-165
\* continue, and the loop repeats without ever giving up the event loop.
fetch_spins(target_url) ==
    ~IsHttpUrl(target_url)

\* What a GET of target_url can produce, for the given statuses and bodies:
\* no response, a response whose body does not parse, a response with a body.
Responses(target_url, statuses, docs) ==
    {GetException} \cup
    [raises : {"parse"}, status : statuses, url : {target_url},
     doc : {EmptyDoc}] \cup
    [raises : {"none"}, status : statuses, url : {target_url, uMirror},
     doc : docs]

VARIABLES
    norm,                       \* an unwrap_google_url evaluation
    fetch,                      \* a fetch_until_success call
    scan,                       \* a scan_cdn_page_loop call
    tasks,                      \* the process_item_fully calls
    s_pc,                       \* search_apps: where the request is
    query,
    limit,
    collected_item_elements,
    current_page,
    max_page,
    s_attempt_count,            \* attempt_count of the search page fetch
    fetched_pages,              \* page numbers a GET was issued for (history)
    response                    \* what the endpoint answered (None: nothing yet)

vars ==
    <<norm, fetch, scan, tasks, s_pc, query, limit, collected_item_elements,
      current_page, max_page, s_attempt_count, fetched_pages, response>>

searchVars ==
    <<s_pc, query, limit, collected_item_elements, current_page, max_page,
      s_attempt_count, fetched_pages, response>>

NoUnwrap ==
    [pc |-> "idle"]

NoFetch ==
    [pc |-> "idle"]

NoScan ==
    [pc |-> "idle"]

SearchIdle ==
    /\ s_pc = "idle"
    /\ query = <<>>
    /\ limit = 0
    /\ collected_item_elements = <<>>
    /\ current_page = 1
    /\ max_page = 1
    /\ s_attempt_count = 0
    /\ fetched_pages = <<>>
    /\ response = None

(***************************************************************************)
(* unwrap_google_url on its own: the function is applied to an input, and  *)
(* then to its own result, as search_apps (line 422) and                   *)
(* process_item_fully (line 316) do with a detail link.                    *)
(***************************************************************************)
\* Where a link starts: nothing (a relative link), the catalog site, the
\* catalog site behind the translation proxy, a wrapper URL carrying another
\* URL in its query, a relative link without a leading slash.
UnwrapHeads ==
    {<<>>,
     BASE_DOMAIN,
     sHttps \o <<"p","d","a","l","i","f","e">> \o sTrGoogCom,
     sHttps \o <<"w","/","u","?","q","=">> \o sHttps \o <<"t">>,
     <<"g">>}

\* The path: plain, a mirror path, percent-encoded, percent-encoded twice.
UnwrapPaths ==
    {<<"/","x">>, uFdl, <<"%","2","F","x">>, <<"%","2","5","2","F","x">>}

\* What follows the path: nothing, the translation markers, a further
\* parameter, a parameter that holds the letters http.
UnwrapTails ==
    {<<>>,
     sQxtr \o <<"s","l","=","e","n">>,
     sAxtr \o <<"s","l","=","e","n">>,
     <<"&","k">>,
     <<"?","u","=">> \o sHttp \o <<"&","k">>}

UnwrapInputs ==
    {<<>>} \cup {h \o p \o t : h \in UnwrapHeads, p \in UnwrapPaths, t \in UnwrapTails}

InitUnwrap ==
    /\ norm \in [input : UnwrapInputs, pc : {"call"}, once : {<<>>}, twice : {<<>>}]
    /\ fetch = NoFetch
    /\ scan = NoScan
    /\ tasks = <<>>
    /\ SearchIdle

\* unwrap_google_url(input)
UnwrapOnce ==
    /\ norm.pc = "call"
    /\ norm' = [norm EXCEPT !.pc = "once", !.once = unwrap_google_url(norm.input)]
    /\ UNCHANGED <<fetch, scan, tasks, searchVars>>

\* unwrap_google_url applied to the link it returned
UnwrapTwice ==
    /\ norm.pc = "once"
    /\ norm' = [norm EXCEPT !.pc = "twice", !.twice = unwrap_google_url(norm.once)]
    /\ UNCHANGED <<fetch, scan, tasks, searchVars>>

NextUnwrap ==
    UnwrapOnce \/ UnwrapTwice

SpecUnwrap ==
    InitUnwrap /\ [][NextUnwrap]_vars

(***************************************************************************)
(* A fetch_until_success call on its own                                   *)
(***************************************************************************)
FetchUrls ==
    {uGame, uCdnAbs}

FetchStatuses ==
    {200, 400, 403, 404, 429, 451, 500, 503}

DocCatalog ==
    [EmptyDoc EXCEPT !.catalog = <<[title |-> "ok", name |-> "A", href |-> uGame,
                                    img |-> "ok", src |-> uImg]>>]

DocFound0 ==
    [EmptyDoc EXCEPT !.found0 = TRUE]

DocDetail ==
    [EmptyDoc EXCEPT !.standalone = <<[href |-> uDwn, size |-> "5MB"]>>]

DocAccordion ==
    [EmptyDoc EXCEPT !.accordion = TRUE]

DocCdn ==
    [EmptyDoc EXCEPT !.buttons = <<uFdl>>]

\* Bodies served to a call: nothing, a mirror page, and the pages its
\* validator accepts.
FetchDocs(validator) ==
    {EmptyDoc, DocCdn} \cup
    (CASE validator = "search" -> {DocCatalog, DocFound0}
       [] validator = "detail" -> {DocDetail, DocAccordion}
       [] validator = "mobdisc" -> {DocCatalog})

\* The status and failure of a response, as kept in the attempt log.
Outcome(res) ==
    [raises |-> res.raises, status |-> res.status]

InitFetch ==
    /\ fetch \in [url : FetchUrls, validator : Validators, pc : {"call"},
                  target_url : {<<>>}, attempt_count : {0}, result : {None},
                  log : {<<>>}, last : {None}]
    /\ norm = NoUnwrap
    /\ scan = NoScan
    /\ tasks = <<>>
    /\ SearchIdle

\* Lines 111-117: the target URL and the attempt counter.
FetchCall ==
    /\ fetch.pc = "call"
    /\ fetch' = [fetch EXCEPT !.pc = "loop",
                              !.target_url = fetch_target_url(fetch.url),
                              !.attempt_count = 0]
    /\ UNCHANGED <<norm, scan, tasks, searchVars>>

\* FetchLoop that gives up with None after the second attempt.
FetchLoop_capped ==
    /\ fetch.pc = "loop"
    /\ fetch.attempt_count < MaxAttempts
    /\ \E res \in Responses(fetch.target_url, FetchStatuses, FetchDocs(fetch.validator)) :
         LET out == fetch_attempt(fetch.validator, res)
         IN  fetch' = [fetch EXCEPT
                         !.attempt_count = @ + 1,
                         !.log = Append(@, Outcome(res)),
                         !.last = res,
                         !.pc = IF out.kind = "return" \/ fetch.attempt_count >= 1
                                THEN "returned" ELSE "loop",
                         !.result = out.value]
    /\ UNCHANGED <<norm, scan, tasks, searchVars>>

\* Lines 118-165: one iteration of the loop.
FetchLoop ==
    /\ fetch.pc = "loop"
    /\ fetch.attempt_count < MaxAttempts
    /\ \E res \in Responses(fetch.target_url, FetchStatuses, FetchDocs(fetch.validator)) :
         LET out == fetch_attempt(fetch.validator, res)
         IN  fetch' = [fetch EXCEPT
                         !.attempt_count = @ + 1,
                         !.log = Append(@, Outcome(res)),
                         !.last = res,
                         !.pc = IF out.kind = "return" THEN "returned" ELSE "loop",
                         !.result = out.value]
    /\ UNCHANGED <<norm, scan, tasks, searchVars>>

NextFetch ==
    FetchCall \/ FetchLoop

SpecFetch ==
    InitFetch /\ [][NextFetch]_vars

(***************************************************************************)
(* scan_cdn_page_loop                                                      *)
(***************************************************************************)
\* Buttons of one mirror page that are explored.
MaxButtons ==
    2

uTmeFdl ==
    sHttps \o sTme \o uFdl

uFdlWrapped ==
    sHttps \o <<"m","o","b","d","i","s","c">> \o sTrGoogCom \o uFdl
           \o sQxtr \o <<"s","l","=","e","n">>

\* All sequences over S of length at most n.
SeqsUpTo(S, n) ==
    UNION {[1..k -> S] : k \in 0..n}

\* Lines 194-219: the first button, in document order, that one of the rules
\* accepts; None when no button does.
RECURSIVE scan_buttons(_, _)
scan_buttons(buttons, i) ==
    IF i > Len(buttons) THEN None
    ELSE LET href == buttons[i]
         IN  IF href = <<>> THEN scan_buttons(buttons, i + 1)
             ELSE IF Contains(href, sTme) THEN scan_buttons(buttons, i + 1)
             ELSE IF Contains(href, sFdlPrefix) THEN unwrap_google_url(href)
             ELSE IF StartsWith(href, sHashDownload) THEN CDN_DOMAIN \o Tail_(href, 1)
             ELSE IF Contains(href, sHttp) /\ Contains(href, sMobdiscCom) THEN href
             ELSE scan_buttons(buttons, i + 1)

\* Lines 187-219: what scan_cdn_page_loop returns for the soup it fetched.
scan_cdn_page_links(soup) ==
    IF soup = None THEN None ELSE scan_buttons(soup.buttons, 1)

ScanUrls ==
    {uDwnAbs, uExt}

ScanStatuses ==
    {200, 404, 500}

ButtonHrefs ==
    {<<>>, uTme, uTmeFdl, uFdl, uFdlWrapped, uHash, uCdnAbs, uExt}

ScanDocs ==
    {[EmptyDoc EXCEPT !.buttons = b] : b \in SeqsUpTo(ButtonHrefs, MaxButtons)}

InitScan ==
    /\ scan \in [dwn_url : ScanUrls, pc : {"call"}, target_url : {<<>>},
                 attempt_count : {0}, soup : {None}, result : {None}]
    /\ norm = NoUnwrap
    /\ fetch = NoFetch
    /\ tasks = <<>>
    /\ SearchIdle

\* Lines 177-185 and 111-117: the call, up to the first GET.
ScanCall ==
    /\ scan.pc = "call"
    /\ scan' = [scan EXCEPT !.pc = "loop",
                            !.target_url = fetch_target_url(scan.dwn_url)]
    /\ UNCHANGED <<norm, fetch, tasks, searchVars>>

\* One iteration of the fetch loop and, when the fetch returns, lines 187-219.
ScanLoop ==
    /\ scan.pc = "loop"
    /\ scan.attempt_count < MaxAttempts
    /\ \E res \in Responses(scan.target_url, ScanStatuses, ScanDocs) :
         LET out == fetch_attempt("mobdisc", res)
         IN  scan' = [scan EXCEPT
                        !.attempt_count = @ + 1,
                        !.pc = IF out.kind = "return" THEN "returned" ELSE "loop",
                        !.soup = out.value,
                        !.result = IF out.kind = "return"
                                   THEN scan_cdn_page_links(out.value) ELSE None]
    /\ UNCHANGED <<norm, fetch, tasks, searchVars>>

NextScan ==
    ScanCall \/ ScanLoop

SpecScan ==
    InitScan /\ [][NextScan]_vars

(***************************************************************************)
(* process_item_fully                                                      *)
(*                                                                         *)
(* A call is a record.  It waits at pc = "detail" for the detail page and  *)
(* at pc = "scan" for the mirror page of variant index (counted from 1);   *)
(* one step is one iteration of the fetch loop and, when the fetch         *)
(* returns, all the code up to the next GET or to the return.              *)
(*   scans  : for every variant given to scan_cdn_page_loop, its index,    *)
(*            the URL passed and the link returned (history)               *)
(*   raised : an exception was raised inside the try block (history)       *)
(*   exception : an exception left the call                                *)
(*   finish_rank : how many calls had finished when this one did, itself   *)
(*            included; 0 while it runs (history)                          *)
(*   spinning : the fetch loop the call is in repeats without ever        *)
(*            suspending, so the event loop runs nothing else              *)
(***************************************************************************)
\* Download variants of one detail page that are explored.
MaxVariants ==
    2

uExtDwn ==
    sHttps \o <<"e","x",".","m","e">> \o uDwn

\* ", ".join(links)
RECURSIVE JoinLinks(_)
JoinLinks(links) ==
    IF links = <<>> THEN <<>>
    ELSE IF Len(links) = 1 THEN links[1]
    ELSE links[1] \o sJoin \o JoinLinks(Tail(links))

\* Lines 238-252: the buttons of the versions list, else every button.
item_link_tags(app_soup) ==
    IF app_soup.list # <<>>
    THEN SelectSeq(app_soup.list, LAMBDA b : b # None)
    ELSE DownloadButtons(app_soup)

\* Line 285: a direct external link.
IsExternalLink(raw_link) ==
    /\ Contains(raw_link, sHttp)
    /\ ~Contains(raw_link, sPdalifeCom)
    /\ ~Contains(raw_link, sDwn)

\* process_item_except that lets the exception leave the call.
process_item_reraise(t) ==
    [t EXCEPT !.pc = "done", !.result = None, !.raised = TRUE, !.exception = TRUE]

\* Lines 322-324: any exception of the pipeline becomes None.
process_item_except(t) ==
    [t EXCEPT !.pc = "done", !.result = None, !.raised = TRUE]

\* Lines 306-320 without the test for an empty list.
item_finish_keeps_empty(t) ==
    [t EXCEPT !.pc = "done",
              !.result = [name |-> t.name,
                          link |-> unwrap_google_url(t.detail_url),
                          image |-> t.image,
                          download |-> JoinLinks(t.final_data_list),
                          size |-> t.main_size]]

\* Lines 306-320: the record, or None when no link was collected.
item_finish(t) ==
    IF t.final_data_list = <<>>
    THEN [t EXCEPT !.pc = "done", !.result = None]
    ELSE [t EXCEPT !.pc = "done",
                   !.result = [name |-> t.name,
                               link |-> unwrap_google_url(t.detail_url),
                               image |-> t.image,
                               download |-> JoinLinks(t.final_data_list),
                               size |-> t.main_size]]

\* Lines 264-304, from variant idx up to the next scan_cdn_page_loop call or
\* the end of the loop.
RECURSIVE item_advance(_, _)
item_advance(t, idx) ==
    IF idx > Len(t.link_tags) THEN item_finish(t)
    ELSE LET raw_link == t.link_tags[idx].href
         IN  IF raw_link = <<>> THEN item_advance(t, idx + 1)
             ELSE IF StartsWith(raw_link, sMagnet)
                  THEN item_advance([t EXCEPT !.final_data_list = Append(@, raw_link)],
                                    idx + 1)
             ELSE LET dwn_url == IF IsExternalLink(raw_link) THEN raw_link
                                 ELSE unwrap_google_url(raw_link)
                  IN  [t EXCEPT !.pc = "scan", !.index = idx, !.attempt_count = 0,
                                !.dwn_url = dwn_url,
                                !.target_url = fetch_target_url(dwn_url),
                                !.spinning = fetch_spins(fetch_target_url(dwn_url))]

\* Lines 233-262: after the detail page fetch returned app_soup.
item_after_detail(t, app_soup) ==
    IF app_soup = None THEN [t EXCEPT !.pc = "done", !.result = None]
    ELSE IF item_link_tags(app_soup) = <<>>
         THEN [t EXCEPT !.pc = "done", !.result = None]
    ELSE item_advance([t EXCEPT !.link_tags = item_link_tags(app_soup),
                                !.main_size = item_link_tags(app_soup)[1].size,
                                !.final_data_list = <<>>], 1)

\* Lines 287-292 and 299-301: the link kept for a variant whose scan
\* returned direct_link.
processed_link_of(raw_link, direct_link) ==
    IF IsExternalLink(raw_link)
    THEN IF direct_link # None THEN direct_link ELSE raw_link
    ELSE direct_link

\* item_after_scan with the link put in front of the list.
item_after_scan_prepend(t, soup) ==
    LET direct_link == scan_cdn_page_links(soup)
        processed_link == processed_link_of(t.link_tags[t.index].href, direct_link)
        seen == Append(t.scans, [index |-> t.index, url |-> t.dwn_url,
                                 direct_link |-> direct_link])
    IN  item_advance([t EXCEPT !.scans = seen,
                               !.final_data_list =
                                   IF processed_link # None
                                   THEN <<processed_link>> \o @ ELSE @],
                     t.index + 1)

\* Lines 287-304: after the mirror page fetch of variant t.index returned.
item_after_scan(t, soup) ==
    LET direct_link == scan_cdn_page_links(soup)
        processed_link == processed_link_of(t.link_tags[t.index].href, direct_link)
        seen == Append(t.scans, [index |-> t.index, url |-> t.dwn_url,
                                 direct_link |-> direct_link])
    IN  item_advance([t EXCEPT !.scans = seen,
                               !.final_data_list =
                                   IF processed_link # None
                                   THEN Append(@, processed_link) ELSE @],
                     t.index + 1)

\* Lines 221-232: the call, up to the GET of the detail page.
process_item_fully(name, detail_url, image, stub) ==
    [name |-> name, detail_url |-> detail_url, image |-> image, stub |-> stub,
     pc |-> "detail", attempt_count |-> 0,
     target_url |-> fetch_target_url(detail_url),
     link_tags |-> <<>>, main_size |-> <<>>, index |-> 0, dwn_url |-> <<>>,
     final_data_list |-> <<>>, scans |-> <<>>, raised |-> FALSE,
     exception |-> FALSE, finish_rank |-> 0,
     spinning |-> fetch_spins(fetch_target_url(detail_url)),
     result |-> None]

\* The record of call i after a step took it to t: a call that finished
\* takes the next rank.
Ranked(i, t) ==
    IF t.pc = "done"
    THEN [t EXCEPT !.finish_rank =
            1 + Cardinality({k \in DOMAIN tasks : k # i /\ tasks[k].pc = "done"})]
    ELSE t

\* One step of call i: an iteration of the fetch loop it waits in and, when
\* the fetch returns, the code that follows.
TaskStep(i, max_attempts, detail_responses, scan_responses) ==
    LET t == tasks[i]
    IN  /\ t.pc \in {"detail", "scan"}
        /\ ~t.spinning
        /\ t.attempt_count < max_attempts
        /\ \E res \in IF t.pc = "detail" THEN detail_responses ELSE scan_responses :
             LET out == fetch_attempt(IF t.pc = "detail" THEN "detail" ELSE "mobdisc",
                                      res)
             IN  tasks' = [tasks EXCEPT ![i] =
                             IF out.kind = "continue"
                             THEN [t EXCEPT !.attempt_count = @ + 1]
                             ELSE IF t.pc = "detail"
                                  THEN Ranked(i, item_after_detail(t, out.value))
                             ELSE Ranked(i, item_after_scan(t, out.value))]

\* The code of call i inside the try block, outside the fetch loop, raises
\* an exception: the except clause of lines 322-324 ends the call.
TaskRaise(i) ==
    /\ tasks[i].pc \in {"detail", "scan"}
    /\ ~tasks[i].spinning
    /\ tasks' = [tasks EXCEPT ![i] = Ranked(i, process_item_except(tasks[i]))]

(***************************************************************************)
(* A process_item_fully call on its own                                    *)
(***************************************************************************)
ItemStatuses ==
    {200, 404, 500}

\* A root-relative link whose query holds the letters http
uRelHttp ==
    <<"/","o","?","u","=">> \o sHttp

VariantHrefs ==
    {<<>>, uMagnet, uDwn, uDwnAbs, uExt, uExtDwn, uRelHttp}

Sizes ==
    {<<>>, <<"5","M","B">>}

\* The download buttons with the given hrefs; the first has the size label.
VariantButtons(hrefs, size) ==
    [j \in 1..Len(hrefs) |->
        [href |-> hrefs[j], size |-> IF j = 1 THEN size ELSE <<"9","M","B">>]]

\* A detail page whose buttons stand in the versions list ("list"), outside
\* any list ("standalone"), or outside a list whose entry has no button
\* ("beside").
DetailDoc(layout, hrefs, size) ==
    CASE layout = "list" ->
           [EmptyDoc EXCEPT !.list = VariantButtons(hrefs, size)]
      [] layout = "standalone" ->
           [EmptyDoc EXCEPT !.standalone = VariantButtons(hrefs, size)]
      [] layout = "beside" ->
           [EmptyDoc EXCEPT !.list = <<None>>,
                            !.standalone = VariantButtons(hrefs, size)]

\* Every layout and every list of variants with a size label on the first
\* button; without the label, the versions list with at most one variant.
ItemDetailDocs ==
    {DetailDoc(l, h, <<"5","M","B">>) :
        l \in {"list", "standalone", "beside"},
        h \in SeqsUpTo(VariantHrefs, MaxVariants)}
    \cup {DetailDoc("list", h, z) : h \in SeqsUpTo(VariantHrefs, 1), z \in Sizes}
    \cup {DocAccordion, DocCdn}

ItemCdnDocs ==
    {[EmptyDoc EXCEPT !.buttons = b] :
        b \in {<<>>, <<uTme>>, <<uFdl>>, <<uTme, uFdlWrapped>>}}

InitItem ==
    /\ tasks \in {<<process_item_fully(<<"A">>, d, uImg, 1)>> :
                     d \in {BASE_DOMAIN \o uGame}}
    /\ norm = NoUnwrap
    /\ fetch = NoFetch
    /\ scan = NoScan
    /\ SearchIdle

ItemStep ==
    /\ TaskStep(1, MaxAttempts,
                Responses(tasks[1].target_url, ItemStatuses, ItemDetailDocs),
                Responses(tasks[1].target_url, ItemStatuses, ItemCdnDocs))
    /\ UNCHANGED <<norm, fetch, scan, searchVars>>

ItemRaise ==
    /\ TaskRaise(1)
    /\ UNCHANGED <<norm, fetch, scan, searchVars>>

NextItem ==
    ItemStep \/ ItemRaise

SpecItem ==
    InitItem /\ [][NextItem]_vars

(***************************************************************************)
(* search_apps                                                             *)
(*                                                                         *)
(* A .catalog-item element is a record: whether it has a title link, the   *)
(* text of the link, whether the link has an href, the href, whether it    *)
(* has a poster image, whether the image has a src, the src.  A collected  *)
(* element also records the page and the position it came from and the     *)
(* last well-formed data-max_page value seen up to that page (history).    *)
(* The answer is [status, body]: status 200 with the returned dict, or     *)
(* status 500 when an exception left the handler.                          *)
(***************************************************************************)
\* Largest limit of a request that is explored.
MaxLimit ==
    2

\* Iterations of the fetch loop of one search-result page that are explored.
MaxSearchAttempts ==
    2

\* Iterations of one fetch loop that are explored in each of the concurrent
\* process_item_fully calls of a request.
MaxResolveAttempts ==
    1

Min(a, b) ==
    IF a <= b THEN a ELSE b

Digits ==
    <<"0","1","2","3","4","5","6","7","8","9">>

\* str(n) for n >= 0
RECURSIVE IntToStr(_)
IntToStr(n) ==
    IF n < 10 THEN <<Digits[n + 1]>>
    ELSE IntToStr(n \div 10) \o <<Digits[(n % 10) + 1]>>

IsDigit(c) ==
    \E k \in 1..10 : Digits[k] = c

RECURSIVE DigitsValue(_)
DigitsValue(text) ==
    IF text = <<>> THEN 0
    ELSE 10 * DigitsValue(SubSeq(text, 1, Len(text) - 1))
         + ((CHOOSE k \in 1..10 : Digits[k] = text[Len(text)]) - 1)

\* int(text) succeeds: decimal digits after an optional sign (the blanks and
\* underscores that int also accepts do not occur in the inputs).
IntParses(text) ==
    LET body == IF text # <<>> /\ text[1] \in {"-", "+"} THEN Tail(text) ELSE text
    IN  body # <<>> /\ \A k \in 1..Len(body) : IsDigit(body[k])

\* int(text) where it succeeds
IntOf(text) ==
    IF text[1] = "-" THEN 0 - DigitsValue(Tail(text))
    ELSE IF text[1] = "+" THEN DigitsValue(Tail(text))
    ELSE DigitsValue(text)

\* search_loop_continues with <= for <.
search_loop_one_more(collected, lim) ==
    Len(collected) <= lim

\* Line 357: the condition of the pagination loop.
search_loop_continues(collected, lim) ==
    Len(collected) < lim

\* search_next_page that stays on the page.
search_next_page_same(page) ==
    page

\* Line 400
search_next_page(page) ==
    page + 1

\* Lines 361-364
search_url(q, page) ==
    IF page = 1 THEN BASE_DOMAIN \o sSearch \o q
    ELSE BASE_DOMAIN \o sSearch \o q \o sPage \o IntToStr(page) \o <<"/">>

\* search_max_page that falls back to 1 when the attribute is missing or
\* malformed.
search_max_page_reset(soup, old_max_page) ==
    IF soup.load_more.has_attr /\ IntParses(soup.load_more.text)
    THEN IntOf(soup.load_more.text)
    ELSE 1

\* Lines 386-393: max_page after a page was collected.
search_max_page(soup, old_max_page) ==
    IF soup.load_more.has_attr /\ IntParses(soup.load_more.text)
    THEN IntOf(soup.load_more.text)
    ELSE old_max_page

\* Line 407
search_empty_response ==
    [status |-> 200, body |-> [success |-> TRUE, count |-> 0, results |-> <<>>]]

\* An exception that leaves the handler: the framework answers 500.
search_error_response ==
    [status |-> 500, body |-> <<>>]

\* Line 410
items_to_process(collected, lim) ==
    SubSeq(collected, 1, Min(lim, Len(collected)))

\* Lines 421 and 425 raise KeyError for the element: the title link has no
\* href, or the poster image has no src.
item_raises_key_error(el) ==
    el.has_title /\ (~el.has_href \/ (el.has_img /\ ~el.has_src))

\* Lines 413-428: the calls created for the elements from position j on.
RECURSIVE search_tasks(_, _)
search_tasks(items, j) ==
    IF j > Len(items) THEN <<>>
    ELSE IF ~items[j].has_title THEN search_tasks(items, j + 1)
    ELSE <<process_item_fully(items[j].text,
                              unwrap_google_url(items[j].href),
                              IF items[j].has_img
                              THEN unwrap_google_url(items[j].src) ELSE <<>>,
                              j)>>
         \o search_tasks(items, j + 1)

\* gather_results that lists the results in the order the calls finished.
gather_as_completed(ts) ==
    [k \in 1..Len(ts) |-> ts[CHOOSE i \in 1..Len(ts) : ts[i].finish_rank = k].result]

\* Line 431: asyncio.gather lists the results in the order of the calls.
gather_results(ts) ==
    [k \in 1..Len(ts) |-> ts[k].result]

\* Lines 434-444
search_response(q, lim, results) ==
    LET valid_results == SelectSeq(results, LAMBDA r : r # None)
    IN  [status |-> 200,
         body |-> [success |-> TRUE, query |-> q, limit |-> lim,
                   count |-> Len(valid_results), results |-> valid_results]]

Queries ==
    {<<"q">>}

Limits ==
    0..MaxLimit

SearchStatuses ==
    {200, 404, 500}

PageItem(kind, text) ==
    [has_title |-> kind # "notitle", text |-> text,
     has_href |-> kind # "nohref", href |-> uGame,
     has_img |-> kind # "noimg", has_src |-> kind # "nosrc", src |-> uImg]

\* The entry lists of the search-result pages that are served.
PageShapes ==
    {<<PageItem("ok", <<"A">>)>>,
     <<PageItem("notitle", <<"A">>)>>,
     <<PageItem("ok", <<"A">>), PageItem("ok", <<"B">>)>>,
     <<PageItem("noimg", <<"A">>), PageItem("notitle", <<"B">>)>>,
     <<PageItem("nohref", <<"A">>)>>,
     <<PageItem("ok", <<"A">>), PageItem("nosrc", <<"B">>)>>,
     <<[PageItem("ok", <<"A">>) EXCEPT !.src = uImgRel],
       [PageItem("ok", <<"B">>) EXCEPT !.href = uGameRel]>>}

LoadMores ==
    {[has_attr |-> FALSE, text |-> <<>>], [has_attr |-> TRUE, text |-> <<"x">>],
     [has_attr |-> TRUE, text |-> <<"3">>]}

SearchDocs ==
    {[EmptyDoc EXCEPT !.catalog = c, !.load_more = m] :
        c \in PageShapes, m \in LoadMores}
    \cup {EmptyDoc, DocCdn, DocFound0, [DocCatalog EXCEPT !.found0 = TRUE]}

SearchDetailDocs ==
    {EmptyDoc, DetailDoc("list", <<uMagnet>>, <<>>), DetailDoc("list", <<uDwn>>, <<>>)}

SearchCdnDocs ==
    {[EmptyDoc EXCEPT !.buttons = <<uFdl>>]}

\* The responses explored within a search request: no response, or a
\* response with a body from the final URL target_url.
SiteResponses(target_url, statuses, docs) ==
    {GetException} \cup
    [raises : {"none"}, status : statuses, url : {target_url}, doc : docs]

Init ==
    /\ SearchIdle
    /\ tasks = <<>>
    /\ norm = NoUnwrap
    /\ fetch = NoFetch
    /\ scan = NoScan

\* Lines 405-428, reached when the pagination loop has ended.
SearchDispatch(collected, lim) ==
    IF collected = <<>>
    THEN /\ s_pc' = "done"
         /\ response' = search_empty_response
         /\ tasks' = <<>>
    ELSE IF \E j \in 1..Len(items_to_process(collected, lim)) :
               item_raises_key_error(items_to_process(collected, lim)[j])
    THEN /\ s_pc' = "done"
         /\ response' = search_error_response
         /\ tasks' = <<>>
    ELSE /\ s_pc' = "gather"
         /\ response' = None
         /\ tasks' = search_tasks(items_to_process(collected, lim), 1)

\* Lines 339-366: the request arrives and runs up to its first GET.
SearchRequest ==
    /\ s_pc = "idle"
    /\ \E q \in Queries, lim \in Limits :
         /\ query' = q
         /\ limit' = lim
         /\ IF search_loop_continues(<<>>, lim)
            THEN /\ s_pc' = "page"
                 /\ fetched_pages' = <<1>>
                 /\ UNCHANGED <<tasks, response>>
            ELSE /\ SearchDispatch(<<>>, lim)
                 /\ UNCHANGED fetched_pages
    /\ UNCHANGED <<norm, fetch, scan, collected_item_elements, current_page, max_page,
                   s_attempt_count>>

\* The elements of a page, each with the page and position it came from and
\* the last well-formed data-max_page value seen up to that page (0: none;
\* seen_before is that value for the pages before).
page_items(soup, page, seen_before) ==
    [j \in 1..Len(soup.catalog) |->
        [has_title |-> soup.catalog[j].has_title, text |-> soup.catalog[j].text,
         has_href |-> soup.catalog[j].has_href, href |-> soup.catalog[j].href,
         has_img |-> soup.catalog[j].has_img, has_src |-> soup.catalog[j].has_src,
         src |-> soup.catalog[j].src, page |-> page, pos |-> j,
         max_page_seen |-> IF soup.load_more.has_attr
                              /\ IntParses(soup.load_more.text)
                           THEN IntOf(soup.load_more.text) ELSE seen_before]]

\* Lines 366-400 and what follows: one iteration of the fetch loop of the
\* current page; when the fetch returns, the rest of the pagination
\* iteration and then either the GET of the next page or lines 405-428.
SearchPageStep ==
    /\ s_pc = "page"
    /\ s_attempt_count < MaxSearchAttempts
    /\ \E res \in SiteResponses(search_url(query, current_page), SearchStatuses,
                                SearchDocs) :
         LET out == fetch_attempt("search", res)
             soup == out.value
             seen_before ==
                 IF collected_item_elements = <<>> THEN 0
                 ELSE collected_item_elements[Len(collected_item_elements)].max_page_seen
             collected == collected_item_elements
                              \o page_items(soup, current_page, seen_before)
             new_max == search_max_page(soup, max_page)
         IN  IF out.kind = "continue"
             THEN /\ s_attempt_count' = s_attempt_count + 1
                  /\ UNCHANGED <<tasks, s_pc, collected_item_elements, current_page,
                                 max_page, fetched_pages, response>>
             ELSE IF soup = None \/ soup.found0 \/ soup.catalog = <<>>
             THEN /\ SearchDispatch(collected_item_elements, limit)
                  /\ s_attempt_count' = 0
                  /\ UNCHANGED <<collected_item_elements, current_page, max_page,
                                 fetched_pages>>
             ELSE /\ collected_item_elements' = collected
                  /\ max_page' = new_max
                  /\ s_attempt_count' = 0
                  /\ IF current_page >= new_max
                     THEN /\ SearchDispatch(collected, limit)
                          /\ UNCHANGED <<current_page, fetched_pages>>
                     ELSE /\ current_page' = search_next_page(current_page)
                          /\ IF search_loop_continues(collected, limit)
                             THEN /\ s_pc' = "page"
                                  /\ fetched_pages' =
                                         Append(fetched_pages,
                                                search_next_page(current_page))
                                  /\ UNCHANGED <<tasks, response>>
                             ELSE /\ SearchDispatch(collected, limit)
                                  /\ UNCHANGED fetched_pages
    /\ UNCHANGED <<norm, fetch, scan, query, limit>>

\* The event loop is not held by a call that retries without suspending.
EventLoopFree ==
    \A k \in DOMAIN tasks : ~tasks[k].spinning

\* A step of one of the concurrent process_item_fully calls.
ResolveStep(i) ==
    /\ s_pc = "gather"
    /\ EventLoopFree
    /\ TaskStep(i, MaxResolveAttempts,
                SiteResponses(tasks[i].target_url, SearchStatuses, SearchDetailDocs),
                SiteResponses(tasks[i].target_url, SearchStatuses, SearchCdnDocs))
    /\ UNCHANGED <<norm, fetch, scan, searchVars>>

ResolveRaise(i) ==
    /\ s_pc = "gather"
    /\ EventLoopFree
    /\ TaskRaise(i)
    /\ UNCHANGED <<norm, fetch, scan, searchVars>>

\* gather_done that is satisfied by the first call that finishes.
gather_done_first(ts) ==
    \E k \in DOMAIN ts : ts[k].pc = "done"

\* Line 431: asyncio.gather waits until every call has finished.
gather_done(ts) ==
    \A k \in DOMAIN ts : ts[k].pc = "done"

\* Lines 431-444: gather returns once every call has finished; an exception
\* that left a call leaves gather, and the handler, as soon as it is raised.
SearchRespond ==
    /\ s_pc = "gather"
    /\ EventLoopFree
    /\ \/ gather_done(tasks)
       \/ \E k \in DOMAIN tasks : tasks[k].exception
    /\ s_pc' = "done"
    /\ response' = IF \E k \in DOMAIN tasks : tasks[k].exception
                   THEN search_error_response
                   ELSE search_response(query, limit, gather_results(tasks))
    /\ UNCHANGED <<norm, fetch, scan, tasks, query, limit, collected_item_elements,
                   current_page, max_page, s_attempt_count, fetched_pages>>

Next ==
    \/ SearchRequest
    \/ SearchPageStep
    \/ \E i \in DOMAIN tasks : ResolveStep(i)
    \/ \E i \in DOMAIN tasks : ResolveRaise(i)
    \/ SearchRespond

Spec ==
    Init /\ [][Next]_vars

(***************************************************************************)
(* Properties of fetch_until_success (SpecFetch)                           *)
(***************************************************************************)
\* A response with HTTP 429 or a status >= 500.
RetryableResponse(o) ==
    o.raises # "get" /\ (o.status = 429 \/ o.status >= 500)

\* The last response has a parsed body that the caller's validator accepts,
\* and a status that is neither retryable nor 403/404/451.
LastValidated ==
    /\ fetch.last # None
    /\ fetch.last.raises = "none"
    /\ ~RetryableResponse(fetch.last)
    /\ fetch.last.status \notin {403, 404, 451}
    /\ validator_func(fetch.validator, fetch.last.doc)

\* C1: after k >= 0 responses with HTTP 429 or status >= 500 and then a
\* response (not 403/404/451) whose document satisfies the validator, the
\* call has returned that document after exactly k+1 attempts; while every
\* response so far was retryable the call is still looping.
C1_RetryThenFirstValid ==
    /\ (/\ fetch.pc \in {"loop", "returned"}
        /\ Len(fetch.log) >= 1
        /\ \A j \in 1..(Len(fetch.log) - 1) : RetryableResponse(fetch.log[j])
        /\ LastValidated)
       => (/\ fetch.pc = "returned"
           /\ fetch.result = fetch.last.doc
           /\ fetch.attempt_count = Len(fetch.log))
    /\ (/\ fetch.pc \in {"loop", "returned"}
        /\ \A j \in 1..Len(fetch.log) : RetryableResponse(fetch.log[j]))
       => (fetch.pc = "loop" /\ fetch.attempt_count = Len(fetch.log))

\* The responses [429, 500, 200-valid] have been consumed and the valid
\* document was returned at the third attempt.
C1_Witness ==
    /\ fetch.pc = "returned"
    /\ Len(fetch.log) = 3
    /\ fetch.log[1].status = 429 /\ fetch.log[1].raises = "none"
    /\ fetch.log[2].status = 500 /\ fetch.log[2].raises = "none"
    /\ fetch.log[3].status = 200
    /\ LastValidated
    /\ fetch.result = fetch.last.doc
    /\ fetch.attempt_count = 3

\* The first response is terminal: HTTP 404, 403 or 451 with any body, or
\* HTTP 200 with a document that fails the validator and shows no mirror
\* marker.
FirstTerminal ==
    /\ fetch.pc \in {"loop", "returned"}
    /\ Len(fetch.log) = 1
    /\ fetch.last.raises # "get"
    /\ \/ fetch.last.status \in {404, 403, 451}
       \/ /\ fetch.last.status = 200
          /\ fetch.last.raises = "none"
          /\ ~validator_func(fetch.validator, fetch.last.doc)
          /\ ~Contains(fetch.last.url, sMobdisc)
          /\ fetch.last.doc.buttons = <<>>

\* C2: a first response that is HTTP 404, 403 or 451, or HTTP 200 with an
\* invalid document and no mirror marker, makes the call return None after
\* exactly one attempt, and no further GET is possible.
C2_TerminalNeverRetried ==
    FirstTerminal =>
        (/\ fetch.pc = "returned"
         /\ fetch.result = None
         /\ fetch.attempt_count = 1
         /\ ~ENABLED FetchLoop)

\* A 200 response with an invalid document and no mirror marker ended the
\* call at its first attempt.
C2_Witness ==
    /\ FirstTerminal
    /\ fetch.last.status = 200
    /\ fetch.pc = "returned"
    /\ fetch.result = None
    /\ fetch.attempt_count = 1

(***************************************************************************)
(* Properties of scan_cdn_page_loop (SpecScan)                             *)
(***************************************************************************)
\* A button that is not a messaging link and whose href contains /fdl/.
IsFdlButton(href) ==
    href # <<>> /\ ~Contains(href, sTme) /\ Contains(href, sFdlPrefix)

\* The mirror page was fetched and scanned.
ScanReturnedPage ==
    scan.pc = "returned" /\ scan.soup # None

\* C5: when the fetched mirror page has a non-messaging button whose href
\* contains /fdl/, the resolver returns the normalised form of such a link,
\* wherever hash-route or absolute-CDN buttons stand in the list.
C5_FdlHighestPriority ==
    (ScanReturnedPage /\ \E i \in 1..Len(scan.soup.buttons) :
                             IsFdlButton(scan.soup.buttons[i]))
    => \E i \in 1..Len(scan.soup.buttons) :
          /\ IsFdlButton(scan.soup.buttons[i])
          /\ scan.result = unwrap_google_url(scan.soup.buttons[i])

(***************************************************************************)
(* Properties of process_item_fully (SpecItem)                             *)
(***************************************************************************)
\* The link that variant idx of call t has yielded, None when it has yielded
\* none: a magnet href as it stands; else the link its mirror scan returned;
\* else, for a direct external link, the raw href.
VariantLink(t, idx) ==
    LET raw_link == t.link_tags[idx].href
        done == {k \in 1..Len(t.scans) : t.scans[k].index = idx}
    IN  IF raw_link = <<>> THEN None
        ELSE IF StartsWith(raw_link, sMagnet) THEN raw_link
        ELSE IF done = {} THEN None
        ELSE LET sc == t.scans[CHOOSE k \in done : TRUE]
             IN  IF sc.direct_link # None THEN sc.direct_link
                 ELSE IF IsExternalLink(raw_link) THEN raw_link
                 ELSE None

\* The links of variants idx.. of call t that yielded one, in variant order.
RECURSIVE LinksFrom(_, _)
LinksFrom(t, idx) ==
    IF idx > Len(t.link_tags) THEN <<>>
    ELSE (IF VariantLink(t, idx) # None THEN <<VariantLink(t, idx)>> ELSE <<>>)
         \o LinksFrom(t, idx + 1)

AllVariantsFailed(t) ==
    \A idx \in 1..Len(t.link_tags) : VariantLink(t, idx) = None

\* C3: a finished process_item_fully call returns None or a record whose
\* download field is the join of a non-empty list of non-empty links; when
\* no variant yielded a link it returns None.
C3_NeverEmptyDownload ==
    \A i \in DOMAIN tasks :
        tasks[i].pc = "done" =>
            /\ tasks[i].result # None =>
                  /\ tasks[i].final_data_list # <<>>
                  /\ \A j \in 1..Len(tasks[i].final_data_list) :
                        tasks[i].final_data_list[j] # <<>>
                  /\ tasks[i].result.download = JoinLinks(tasks[i].final_data_list)
                  /\ tasks[i].result.download # <<>>
            /\ AllVariantsFailed(tasks[i]) => tasks[i].result = None

\* A call whose detail page had variants, all scanned without a link, has
\* returned None.
C3_Witness ==
    \E i \in DOMAIN tasks :
        /\ tasks[i].pc = "done"
        /\ ~tasks[i].raised
        /\ tasks[i].link_tags # <<>>
        /\ Len(tasks[i].scans) = Len(tasks[i].link_tags)
        /\ AllVariantsFailed(tasks[i])
        /\ tasks[i].result = None

\* C4: the links of a finished call are, in variant order, exactly the links
\* its variants yielded; a magnet href is emitted as it stands and is never
\* given to the mirror scan.
C4_OrderAndMagnetVerbatim ==
    \A i \in DOMAIN tasks :
        /\ tasks[i].pc = "scan" =>
              ~StartsWith(tasks[i].link_tags[tasks[i].index].href, sMagnet)
        /\ \A k \in 1..Len(tasks[i].scans) :
              ~StartsWith(tasks[i].link_tags[tasks[i].scans[k].index].href, sMagnet)
        /\ (tasks[i].pc = "done" /\ ~tasks[i].raised) =>
              /\ tasks[i].final_data_list = LinksFrom(tasks[i], 1)
              /\ tasks[i].result # None =>
                    tasks[i].result.download = JoinLinks(LinksFrom(tasks[i], 1))

\* Variants [magnet:?xt=1, /dwn/r], the redirect resolved by one scan: the
\* record holds the magnet link first, then the resolved link.
C4_Witness ==
    \E i \in DOMAIN tasks :
        /\ tasks[i].pc = "done"
        /\ Len(tasks[i].link_tags) = 2
        /\ tasks[i].link_tags[1].href = uMagnet
        /\ tasks[i].link_tags[2].href = uDwn
        /\ Len(tasks[i].scans) = 1
        /\ tasks[i].scans[1].direct_link = CDN_DOMAIN \o uFdl
        /\ tasks[i].result # None
        /\ tasks[i].result.download = uMagnet \o sJoin \o CDN_DOMAIN \o uFdl

(***************************************************************************)
(* Properties of search_apps (Spec)                                        *)
(***************************************************************************)
\* The request was answered with a returned dict.
Answered ==
    response # None /\ response.status = 200

\* The results of the calls made for the stubs j.. of the first limit
\* collected elements, in stub order, absent results left out.
RECURSIVE ResolvedStubs(_)
ResolvedStubs(j) ==
    IF j > Min(limit, Len(collected_item_elements)) THEN <<>>
    ELSE LET made == {k \in DOMAIN tasks : tasks[k].stub = j}
         IN  (IF made # {} /\ tasks[CHOOSE k \in made : TRUE].result # None
              THEN <<tasks[CHOOSE k \in made : TRUE].result>> ELSE <<>>)
             \o ResolvedStubs(j + 1)

\* C6: the results of an answer are exactly the results of the first limit
\* collected stubs whose resolution succeeded, in stub order: at most limit,
\* none absent, whatever the order in which the resolutions finished.
C6_ResultsInStubOrder ==
    Answered =>
        /\ response.body.results = ResolvedStubs(1)
        /\ Len(response.body.results) <= limit
        /\ \A r \in 1..Len(response.body.results) : response.body.results[r] # None
        /\ \A k \in DOMAIN tasks :
              /\ tasks[k].stub <= Min(limit, Len(collected_item_elements))
              /\ tasks[k].name = collected_item_elements[tasks[k].stub].text
              /\ \A m \in DOMAIN tasks : k < m => tasks[k].stub < tasks[m].stub

\* More stubs were collected than the limit, the second resolution finished
\* before the first, and the answer lists both results in stub order.
C6_Witness ==
    /\ Answered
    /\ limit = 2
    /\ Len(collected_item_elements) > limit
    /\ Len(tasks) = 2
    /\ tasks[2].finish_rank = 1
    /\ tasks[1].result # None /\ tasks[2].result # None
    /\ tasks[1].result # tasks[2].result
    /\ response.body.results = <<tasks[1].result, tasks[2].result>>

\* The results of the calls that did not raise, in call order.
RECURSIVE ResultsOfOthers(_)
ResultsOfOthers(k) ==
    IF k > Len(tasks) THEN <<>>
    ELSE (IF tasks[k].raised THEN <<>> ELSE <<tasks[k].result>>)
         \o ResultsOfOthers(k + 1)

ExactlyOneRaised ==
    /\ Cardinality({k \in DOMAIN tasks : tasks[k].raised}) = 1
    /\ \A k \in DOMAIN tasks : ~tasks[k].raised => tasks[k].result # None

\* C7: when one of the N concurrent resolutions raises an exception and the
\* other N-1 resolve, the request is answered with success and exactly those
\* N-1 results; an exception of a resolution never becomes an error answer.
C7_ExceptionIsolated ==
    /\ (response # None /\ \E k \in DOMAIN tasks : tasks[k].raised)
       => (response.status = 200 /\ response.body.success)
    /\ \A k \in DOMAIN tasks :
          tasks[k].raised => (tasks[k].pc = "done" /\ tasks[k].result = None)
    /\ (response # None /\ ExactlyOneRaised)
       => /\ response.body.count = Len(tasks) - 1
          /\ response.body.results = ResultsOfOthers(1)

\* Two resolutions, one raised and one resolved: the answer is a success
\* with the one result.
C7_Witness ==
    /\ Answered
    /\ Len(tasks) = 2
    /\ ExactlyOneRaised
    /\ response.body.success
    /\ response.body.count = 1

\* C8: every answer of /search is a success; its result list is empty when
\* nothing resolved.
C8_NeverErrorStatus ==
    response # None =>
        /\ response.status = 200
        /\ response.body.success
        /\ (\A k \in DOMAIN tasks : tasks[k].result = None)
              => response.body.results = <<>>

\* C9: every returned dict has the keys success, query, limit, count and
\* results, carries the query and the limit of the request, and its count
\* is the length of its results.
C9_FullResponseShape ==
    Answered =>
        /\ DOMAIN response.body = {"success", "query", "limit", "count", "results"}
        /\ response.body.query = query
        /\ response.body.limit = limit
        /\ response.body.count = Len(response.body.results)

\* ceil(a / b) for b > 0
CeilDiv(a, b) ==
    (a + b - 1) \div b

\* Every page that gave entries gave exactly p of them.
PagesHave(p) ==
    \A pg \in {collected_item_elements[j].page :
                  j \in 1..Len(collected_item_elements)} :
        Cardinality({j \in 1..Len(collected_item_elements) :
                        collected_item_elements[j].page = pg}) = p

\* C10: a search-result page is fetched only while fewer than limit entries
\* are accumulated; with p entries per page at most ceil(limit / p) pages
\* are fetched.
C10_PagingStopsAtLimit ==
    /\ s_pc = "page" => Len(collected_item_elements) < limit
    /\ \A p \in 1..(Len(collected_item_elements) + 1) :
          PagesHave(p) => Len(fetched_pages) <= CeilDiv(limit, p)

\* limit = 2 and one entry per page: pages 1 and 2 were fetched, page 3,
\* which the site announced, was not.
C10_Witness ==
    /\ s_pc \in {"gather", "done"}
    /\ limit = 2
    /\ max_page = 3
    /\ PagesHave(1)
    /\ Len(collected_item_elements) = 2
    /\ fetched_pages = <<1, 2>>

(***************************************************************************)
(* Properties of unwrap_google_url (SpecUnwrap)                            *)
(***************************************************************************)
\* C11: unwrap_google_url is idempotent: applied to its own result it
\* returns that result unchanged, for every input.
C11_Idempotent ==
    norm.pc = "twice" => norm.twice = norm.once

IsUrlStart(s, i) ==
    MatchAt(s, sHttps, i) \/ MatchAt(s, sHttp \o sColonSlashes, i)

\* The URL embedded in s: from the first http:// or https:// after the first
\* eight characters up to the next "&" (or the end).
EmbeddedUrl(s) ==
    LET i == CHOOSE k \in 9..Len(s) :
                 IsUrlStart(s, k) /\ \A m \in 9..(k - 1) : ~IsUrlStart(s, m)
        stops == {k \in i..Len(s) : s[k] = "&"}
        j == IF stops = {} THEN Len(s) + 1
             ELSE CHOOSE k \in stops : \A m \in stops : k <= m
    IN  SubSeq(s, i, j - 1)

HasEmbeddedUrl(s) ==
    StartsWith(s, sHttps) /\ \E k \in 9..Len(s) : IsUrlStart(s, k)

\* C20: for an absolute https:// link that contains a second http(s)://
\* after its first eight characters, unwrap_google_url returns the embedded
\* URL, cut at the first "&", and not the wrapper.
C20_ReturnsEmbeddedUrl ==
    (norm.pc # "call" /\ norm.pc # "idle" /\ HasEmbeddedUrl(unwrap_clean(norm.input)))
        => norm.once = EmbeddedUrl(unwrap_clean(norm.input))

(***************************************************************************)
(* Further properties of search_apps (Spec)                                *)
(***************************************************************************)
\* C12: in every record of a returned dict, link and image are absolute
\* URLs, whatever the href and src of the catalog entry were.
C12_LinkAndImageAbsolute ==
    Answered =>
        \A k \in 1..Len(response.body.results) :
            /\ IsHttpUrl(response.body.results[k].link)
            /\ IsHttpUrl(response.body.results[k].image)

\* C13: the pages a GET is issued for are 1, 2, 3, ... in this order, the
\* page being fetched is the last of them, and the collected elements are in
\* page order and then position order with no (page, position) twice: no
\* page is collected twice, also not after a retry of its fetch.
C13_NoPageCollectedTwice ==
    /\ \A k \in 1..Len(fetched_pages) : fetched_pages[k] = k
    /\ s_pc = "page" => current_page = Len(fetched_pages)
    /\ \A j \in 1..Len(collected_item_elements) :
          /\ collected_item_elements[j].page \in 1..Len(fetched_pages)
          /\ \A k \in (j + 1)..Len(collected_item_elements) :
                \/ collected_item_elements[j].page < collected_item_elements[k].page
                \/ /\ collected_item_elements[j].page = collected_item_elements[k].page
                   /\ collected_item_elements[j].pos < collected_item_elements[k].pos

\* The fetch of page 2 is being retried; the entry of page 1 is collected,
\* once.
C13_Witness ==
    /\ s_pc = "page"
    /\ current_page = 2
    /\ s_attempt_count >= 1
    /\ Len(collected_item_elements) = 1
    /\ collected_item_elements[1].page = 1

\* The collected elements of the pages up to pg.
UpToPage(pg) ==
    SelectSeq(collected_item_elements, LAMBDA e : e.page <= pg)

\* A well-formed data-max_page attribute was seen on a page up to pg.
Discovered(pg) ==
    UpToPage(pg) # <<>> /\ UpToPage(pg)[Len(UpToPage(pg))].max_page_seen # 0

\* The value of the last well-formed attribute seen with the elements es, or
\* otherwise dflt.
LastMaxPage(es, dflt) ==
    IF es = <<>> \/ es[Len(es)].max_page_seen = 0 THEN dflt
    ELSE es[Len(es)].max_page_seen

CollectedPages ==
    {collected_item_elements[j].page : j \in 1..Len(collected_item_elements)}

\* C14 as stated: after a collected page that has not reached a discovered
\* maximum, also when no maximum was discovered, and with fewer entries than
\* limit, page + 1 is fetched.
C14_AdvancesUnlessDiscoveredMax ==
    \A pg \in CollectedPages :
        (/\ ~(Discovered(pg) /\ pg >= LastMaxPage(UpToPage(pg), 1))
         /\ Len(UpToPage(pg)) < limit)
            => \E k \in 1..Len(fetched_pages) : fetched_pages[k] = pg + 1

\* C14 amended: max_page is the value of the last well-formed attribute, or
\* 1 when none was seen; after a collected page below max_page and with
\* fewer entries than limit, page + 1 is fetched; after a collected page that
\* has reached max_page no further page is fetched.
C14_AdvancesBelowMaxPage ==
    /\ max_page = LastMaxPage(collected_item_elements, 1)
    /\ \A pg \in CollectedPages :
          /\ (pg < LastMaxPage(UpToPage(pg), 1) /\ Len(UpToPage(pg)) < limit)
                => \E k \in 1..Len(fetched_pages) : fetched_pages[k] = pg + 1
          /\ pg >= LastMaxPage(UpToPage(pg), 1)
                => \A k \in 1..Len(fetched_pages) : fetched_pages[k] <= pg

\* Page 1 gave one entry and data-max_page = 3, limit is 2: page 2 is being
\* fetched.
C14_Witness ==
    /\ s_pc = "page"
    /\ limit = 2
    /\ fetched_pages = <<1, 2>>
    /\ Len(collected_item_elements) = 1
    /\ collected_item_elements[1].max_page_seen = 3
    /\ max_page = 3

(***************************************************************************)
(* Further properties of fetch_until_success (SpecFetch)                   *)
(***************************************************************************)
\* What an attempt produced sends the loop round again: an exception of the
\* GET, HTTP 429 or a status >= 500, and for a status other than
\* 403/404/451 an exception of the parser or, the status not being 200
\* either, a document that fails the validator and shows no mirror marker.
RetryableOutcome(validator, res) ==
    \/ res.raises = "get"
    \/ res.status = 429
    \/ res.status >= 500
    \/ /\ res.status \notin {403, 404, 451}
       /\ \/ res.raises = "parse"
          \/ /\ res.status # 200
             /\ ~validator_func(validator, res.doc)
             /\ ~Contains(res.url, sMobdisc)
             /\ res.doc.buttons = <<>>

\* C15: the call has returned exactly when its last attempt produced an
\* outcome that is not retryable; as long as every attempt produced a
\* retryable outcome it is still in the loop, however many attempts were
\* made; every iteration counts as one attempt.
C15_ReturnsExactlyOnNonRetryable ==
    fetch.pc \in {"loop", "returned"} =>
        /\ fetch.attempt_count = Len(fetch.log)
        /\ fetch.pc = "returned" <=>
              (fetch.last # None /\ ~RetryableOutcome(fetch.validator, fetch.last))
        /\ \A j \in 1..(Len(fetch.log) - 1) :
              \/ fetch.log[j].raises # "none"
              \/ fetch.log[j].status \notin {200, 403, 404, 451}

\* Three attempts gave an exception, HTTP 400 with an invalid document and
\* HTTP 500: the call is still in the loop.
C15_Witness ==
    /\ fetch.pc = "loop"
    /\ fetch.attempt_count = 3
    /\ fetch.log[1].raises = "get"
    /\ fetch.log[2].raises = "none" /\ fetch.log[2].status = 400
    /\ fetch.log[3].raises = "none" /\ fetch.log[3].status = 500

\* The last response is not retryable by status, not 403/404/451, its
\* document fails the validator, and its final URL contains mobdisc or the
\* document has a download button.
MirrorOverride ==
    /\ fetch.pc \in {"loop", "returned"}
    /\ fetch.last # None
    /\ fetch.last.raises = "none"
    /\ fetch.last.status \notin {429, 403, 451, 404}
    /\ fetch.last.status < 500
    /\ ~validator_func(fetch.validator, fetch.last.doc)
    /\ Contains(fetch.last.url, sMobdisc) \/ fetch.last.doc.buttons # <<>>

\* C19: a response under the mirror override makes the call return its
\* document, also when the status is 200.
C19_MirrorOverride ==
    MirrorOverride =>
        /\ fetch.pc = "returned"
        /\ fetch.result = fetch.last.doc
        /\ fetch.result # None

\* HTTP 200 from a mirror URL with a document that fails the validator and
\* has no button: the document was returned.
C19_Witness ==
    /\ MirrorOverride
    /\ fetch.last.status = 200
    /\ fetch.last.doc.buttons = <<>>
    /\ Contains(fetch.last.url, sMobdisc)
    /\ fetch.pc = "returned"
    /\ fetch.result = fetch.last.doc

(***************************************************************************)
(* Properties of the concurrent resolutions (Spec)                         *)
(***************************************************************************)
\* C16: a process_item_fully call that waits for a response and has
\* attempts left can take its next step whatever its siblings do, also
\* while a sibling retries forever.
C16_SiblingsNeverBlocked ==
    \A i \in DOMAIN tasks :
        (/\ s_pc = "gather"
         /\ tasks[i].pc \in {"detail", "scan"}
         /\ ~tasks[i].spinning
         /\ tasks[i].attempt_count < MaxResolveAttempts)
            => ENABLED ResolveStep(i)

\* C17: while a dispatched call has not finished the request has no
\* response and none can be produced; a returned dict is produced only when
\* every call has finished.
C17_FanInWaitsForAll ==
    /\ (s_pc = "gather" /\ \E k \in DOMAIN tasks : tasks[k].pc # "done")
          => (response = None /\ ~ENABLED SearchRespond)
    /\ (response # None /\ tasks # <<>>)
          => \A k \in DOMAIN tasks : tasks[k].pc = "done"

\* Two calls were dispatched: the first has finished, the second is still
\* retrying its fetch, and there is no response.
C17_Witness ==
    /\ s_pc = "gather"
    /\ Len(tasks) = 2
    /\ tasks[1].pc = "done"
    /\ tasks[2].pc # "done"
    /\ tasks[2].attempt_count >= 1
    /\ response = None

(***************************************************************************)
(* Further properties of process_item_fully (SpecItem)                     *)
(***************************************************************************)
\* The href is absolute, outside the catalog domain and not a /dwn/
\* redirect.
IsAbsoluteExternal(raw_link) ==
    /\ IsHttpUrl(raw_link)
    /\ ~Contains(raw_link, sPdalifeCom)
    /\ ~Contains(raw_link, sDwn)

\* The link that variant idx of call t leaves in the download links when
\* its mirror scan fails only for an absolute external href.
KeptLink(t, idx) ==
    LET raw_link == t.link_tags[idx].href
        done == {k \in 1..Len(t.scans) : t.scans[k].index = idx}
    IN  IF raw_link = <<>> THEN None
        ELSE IF StartsWith(raw_link, sMagnet) THEN raw_link
        ELSE IF done = {} THEN None
        ELSE LET sc == t.scans[CHOOSE k \in done : TRUE]
             IN  IF sc.direct_link # None THEN sc.direct_link
                 ELSE IF IsAbsoluteExternal(raw_link) THEN raw_link
                 ELSE None

RECURSIVE KeptLinksFrom(_, _)
KeptLinksFrom(t, idx) ==
    IF idx > Len(t.link_tags) THEN <<>>
    ELSE (IF KeptLink(t, idx) # None THEN <<KeptLink(t, idx)>> ELSE <<>>)
         \o KeptLinksFrom(t, idx + 1)

\* C18: when the mirror scan of a variant fails, the raw href stays in the
\* download links if it is absolute, outside the catalog domain and not a
\* /dwn/ redirect; every other non-magnet variant whose scan fails adds
\* nothing.
C18_RawFallbackOnlyForExternal ==
    \A i \in DOMAIN tasks :
        (tasks[i].pc = "done" /\ ~tasks[i].raised /\ tasks[i].link_tags # <<>>)
            => tasks[i].final_data_list = KeptLinksFrom(tasks[i], 1)

====
